---- MODULE Spec2Model ----
(***************************************************************************)
(* SuperCalc: the text-to-result pipeline of src/src/main.cpp              *)
(*   preprocessFuncCalls -> Lexer::next / toRPN -> evalRPN                 *)
(* driven by the read loop of main, which owns the single Env.             *)
(*                                                                         *)
(* Text is a sequence of one-character strings; the cursor positions i, j, *)
(* k, m, p are 0-based as in the source, so s[i] of the source is At(s,i). *)
(*                                                                         *)
(* Numbers: a double is modelled by an exact rational [k |-> "q"] while    *)
(* numerator and denominator stay within Limit, and by a term over exact   *)
(* values [k |-> "s"] otherwise (results outside the exact range, roots    *)
(* and powers that are not rational, transcendental functions, inf/nan).   *)
(* Two equal model values denote equal doubles; rounding is not modelled.  *)
(***************************************************************************)
EXTENDS Integers, Sequences, FiniteSets, TLC

VARIABLES line, vars, result, pc, pre, lex, rpn, ev

allvars == <<line, vars, result, pc, pre, lex, rpn, ev>>

\* ------------------------------------------------------------------ bounds
Limit == 10000       \* exact rationals keep |numerator|, denominator <= Limit
MaxTail == 2         \* longest text after the prefix of a line of the read loop (Spec)
MaxLenA == 6         \* longest arithmetic expression (SpecArith)
MaxLenP == 5         \* longest parenthesis line (SpecParen)
MaxArg == 3          \* longest argument text of a call (SpecCall)
MaxArgN == 2         \* longest argument text of a nested call (SpecNested)
MaxTailA == 3        \* longest text after an assignment prefix (SpecAssign)
MaxLenL == 4         \* longest literal line (SpecLex)
MaxLenS == 4         \* longest line walked step by step (SpecSteps)
MaxLenT == 3         \* longest line walked step by step under fairness (SpecTerm)

\* ------------------------------------------------------- characters, text
Str1(a) == <<a>>
At(s, i) == s[i + 1]
SubStr(s, start, len) == SubSeq(s, start + 1, start + len)
Last(s) == s[Len(s)]
Front(s) == SubSeq(s, 1, Len(s) - 1)

Digits == {"0", "1", "2", "3", "4", "5", "6", "7", "8", "9"}
Letters == {"a", "b", "c", "d", "e", "f", "g", "h", "i", "j", "k", "l", "m",
            "n", "o", "p", "q", "r", "s", "t", "u", "v", "w", "x", "y", "z",
            "A", "B", "C", "D", "E", "F", "G", "H", "I", "J", "K", "L", "M",
            "N", "O", "P", "Q", "R", "S", "T", "U", "V", "W", "X", "Y", "Z"}
isdigit(c) == c \in Digits
isalpha(c) == c \in Letters
isalnum(c) == isalpha(c) \/ isdigit(c)
isspace(c) == c \in {" ", "\t"}

isIdentStart(c) == isalpha(c) \/ c = "_"
isIdentChar(c) == isalnum(c) \/ c = "_"

RECURSIVE ltrim(_)
ltrim(s) == IF s # <<>> /\ isspace(s[1]) THEN ltrim(Tail(s)) ELSE s
RECURSIVE rtrim(_)
rtrim(s) == IF s # <<>> /\ isspace(Last(s)) THEN rtrim(Front(s)) ELSE s
trim(s) == ltrim(rtrim(s))

\* all texts over an alphabet, up to a length
Texts(alpha, maxlen) == UNION {[1..n -> alpha] : n \in 0..maxlen}

\* ----------------------------------------------------------------- values
AbsI(x) == IF x < 0 THEN -x ELSE x
RECURSIVE Gcd(_, _)
Gcd(a, b) == IF b = 0 THEN a ELSE Gcd(b, a % b)

Sym(op, args) == [k |-> "s", n |-> 0, d |-> 1, op |-> op, a |-> args]
Rat(n, d) == [k |-> "q", n |-> n, d |-> d, op |-> <<>>, a |-> <<>>]
\* n/d in lowest terms, d # 0; outside the exact range it is the term `other`
Q(n, d, other) ==
    LET g == Gcd(AbsI(n), AbsI(d))
        sg == IF d < 0 THEN -1 ELSE 1
        nn == (sg * n) \div g
        dd == (sg * d) \div g
    IN  IF AbsI(nn) <= Limit /\ dd <= Limit THEN Rat(nn, dd) ELSE other
Num(n) == Rat(n, 1)
IsQ(v) == v.k = "q"
IsZero(v) == IsQ(v) /\ v.n = 0

\* acc * b^e, or -1 once it leaves the exact range (b >= 0)
RECURSIVE IPow(_, _, _)
IPow(b, e, acc) ==
    IF e = 0 THEN acc
    ELSE IF b = 1 THEN acc
    ELSE IF acc * b > Limit THEN -1
    ELSE IPow(b, e - 1, acc * b)

Add(a, b) == IF IsQ(a) /\ IsQ(b) THEN Q(a.n * b.d + b.n * a.d, a.d * b.d, Sym(<<"+">>, <<a, b>>))
             ELSE Sym(<<"+">>, <<a, b>>)
Sub(a, b) == IF IsQ(a) /\ IsQ(b) THEN Q(a.n * b.d - b.n * a.d, a.d * b.d, Sym(<<"-">>, <<a, b>>))
             ELSE Sym(<<"-">>, <<a, b>>)
Mul(a, b) == IF IsQ(a) /\ IsQ(b) THEN Q(a.n * b.n, a.d * b.d, Sym(<<"*">>, <<a, b>>))
             ELSE Sym(<<"*">>, <<a, b>>)
\* b is not zero
Div(a, b) == IF IsQ(a) /\ IsQ(b) THEN Q(a.n * b.d, a.d * b.n, Sym(<<"/">>, <<a, b>>))
             ELSE Sym(<<"/">>, <<a, b>>)
Neg(a) == IF IsQ(a) THEN Rat(-a.n, a.d) ELSE Sym(<<"u", "-">>, <<a>>)
\* pow of <cmath>
Pow(a, b) ==
    LET other == Sym(<<"p", "o", "w">>, <<a, b>>) IN
    IF ~(IsQ(a) /\ IsQ(b) /\ b.d = 1) THEN other
    ELSE IF b.n = 0 THEN Num(1)
    ELSE IF a.n = 0 THEN (IF b.n > 0 THEN Num(0) ELSE other)
    ELSE LET e == AbsI(b.n)
             pn == IPow(AbsI(a.n), e, 1)
             pd == IPow(a.d, e, 1)
             sg == IF a.n < 0 /\ e % 2 = 1 THEN -1 ELSE 1
         IN  IF pn < 0 \/ pd < 0 THEN other
             ELSE IF b.n > 0 THEN Rat(sg * pn, pd) ELSE Rat(sg * pd, pn)

\* the integer root of n when n is a perfect square, else -1
ISqrt(n) == IF \E r \in 0..100 : r * r = n THEN CHOOSE r \in 0..100 : r * r = n ELSE -1
Sqrt(a) ==
    IF IsQ(a) /\ a.n >= 0 /\ ISqrt(a.n) >= 0 /\ ISqrt(a.d) >= 0
    THEN Rat(ISqrt(a.n), ISqrt(a.d))
    ELSE Sym(<<"s", "q", "r", "t">>, <<a>>)
Fabs(a) == IF IsQ(a) THEN Rat(AbsI(a.n), a.d) ELSE Sym(<<"a", "b", "s">>, <<a>>)
Floor(a) == IF IsQ(a) THEN Num(a.n \div a.d) ELSE Sym(<<"f", "l", "o", "o", "r">>, <<a>>)
Ceil(a) == IF IsQ(a) THEN Num(-((-a.n) \div a.d)) ELSE Sym(<<"c", "e", "i", "l">>, <<a>>)

\* --------------------------------------------------------------- Tokenizer
Token(t, value, text) == [t |-> t, value |-> value, text |-> text]
EndTok == Token("End", Num(0), <<>>)

DigitVal(c) == CASE c = "0" -> 0 [] c = "1" -> 1 [] c = "2" -> 2 [] c = "3" -> 3
                 [] c = "4" -> 4 [] c = "5" -> 5 [] c = "6" -> 6 [] c = "7" -> 7
                 [] c = "8" -> 8 [] c = "9" -> 9

\* line 31: skip whitespace
RECURSIVE SkipSpace(_, _)
SkipSpace(s, i) == IF i < Len(s) /\ isspace(At(s, i)) THEN SkipSpace(s, i + 1) ELSE i

\* line 38: digits and at most one '.'
RECURSIVE ScanMantissa(_, _, _)
ScanMantissa(s, i, seenDot) ==
    IF i < Len(s) /\ (isdigit(At(s, i)) \/ (~seenDot /\ At(s, i) = "."))
    THEN ScanMantissa(s, i + 1, seenDot \/ At(s, i) = ".")
    ELSE i

RECURSIVE ScanDigits(_, _)
ScanDigits(s, j) == IF j < Len(s) /\ isdigit(At(s, j)) THEN ScanDigits(s, j + 1) ELSE j

\* lines 40-44: the exponent is consumed only when it has a digit
ScanExponent(s, i) ==
    IF i < Len(s) /\ At(s, i) \in {"e", "E"}
    THEN LET j0 == i + 1
             j1 == IF j0 < Len(s) /\ At(s, j0) \in {"+", "-"} THEN j0 + 1 ELSE j0
             j2 == ScanDigits(s, j1)
         IN  IF j2 > j1 THEN j2 ELSE i
    ELSE i

\* the digits of a text as a natural number, ignoring every other character
RECURSIVE DigitsNat(_, _)
DigitsNat(s, acc) ==
    IF s = <<>> THEN acc
    ELSE IF isdigit(s[1]) THEN DigitsNat(Tail(s), 10 * acc + DigitVal(s[1]))
    ELSE DigitsNat(Tail(s), acc)
CountDigits(s) == Cardinality({p \in 1..Len(s) : isdigit(s[p])})

\* m * 10^e as a value; a literal outside the exact range is the term "lit"
RECURSIVE LitValue(_, _)
LitValue(m, e) ==
    IF m = 0 THEN Num(0)
    ELSE IF m % 10 = 0 THEN LitValue(m \div 10, e + 1)
    ELSE LET p == IPow(10, AbsI(e), 1)
             other == [k |-> "s", n |-> m, d |-> e, op |-> <<"l", "i", "t">>, a |-> <<>>]
         IN  IF p < 0 \/ m > Limit THEN other
             ELSE IF e >= 0 THEN Q(m * p, 1, other) ELSE Q(m, p, other)

\* strtod of <cstdlib> on a span that starts with a digit or '.'
strtod(span) ==
    LET mEnd == ScanMantissa(span, 0, FALSE)
        mant == SubStr(span, 0, mEnd)
        dot == IF \E p \in 1..mEnd : mant[p] = "." THEN CHOOSE p \in 1..mEnd : mant[p] = "." ELSE mEnd + 1
        frac == CountDigits(SubSeq(mant, dot, mEnd))
        xEnd == ScanExponent(span, mEnd)
        xNeg == xEnd > mEnd /\ At(span, mEnd + 1) = "-"
        xAbs == DigitsNat(SubStr(span, mEnd, xEnd - mEnd), 0)
        exp10 == IF xNeg THEN -xAbs ELSE xAbs
    IN  IF CountDigits(mant) = 0 THEN Num(0)    \* no conversion is performed
        ELSE LitValue(DigitsNat(mant, 0), exp10 - frac)

\* lines 35-47
LexNumber(s, i) ==
    LET start == i
        i1 == ScanMantissa(s, i + 1, At(s, i) = ".")
        i2 == ScanExponent(s, i1)
    IN  [tok |-> Token("Number", strtod(SubStr(s, start, i2 - start)), <<>>),
         i |-> i2, err |-> "", start |-> start]

RECURSIVE ScanIdent(_, _)
ScanIdent(s, i) == IF i < Len(s) /\ isIdentChar(At(s, i)) THEN ScanIdent(s, i + 1) ELSE i

\* lines 48-51
LexIdent(s, i) ==
    LET i1 == ScanIdent(s, i + 1)
    IN  [tok |-> Token("Ident", Num(0), SubStr(s, i, i1 - i)), i |-> i1, err |-> "", start |-> i]

Punct == [c \in {"(", ")", ",", "+", "-", "*", "/", "^", "="} |->
            CASE c = "(" -> "LParen" [] c = ")" -> "RParen" [] c = "," -> "Comma"
              [] c = "+" -> "Plus" [] c = "-" -> "Minus" [] c = "*" -> "Star"
              [] c = "/" -> "Slash" [] c = "^" -> "Caret" [] c = "=" -> "Assign"]

\* the one-character tokens without the ++i of line 52
LexPunct_stay(s, i) ==
    LET c == At(s, i)
    IN  IF c \in DOMAIN Punct
        THEN [tok |-> Token(Punct[c], Num(0), <<c>>), i |-> i, err |-> "", start |-> i]
        ELSE [tok |-> EndTok, i |-> i, err |-> "LexError", start |-> i]

\* lines 52-64
LexPunct(s, i) ==
    LET c == At(s, i)
    IN  IF c \in DOMAIN Punct
        THEN [tok |-> Token(Punct[c], Num(0), <<c>>), i |-> i + 1, err |-> "", start |-> i]
        ELSE [tok |-> EndTok, i |-> i + 1, err |-> "LexError", start |-> i]

\* lines 32-64: the token that starts at i0, the cursor after the whitespace
LexAt(s, i0) ==
    IF i0 >= Len(s) THEN [tok |-> EndTok, i |-> i0, err |-> "", start |-> i0]
    ELSE IF isdigit(At(s, i0)) \/ At(s, i0) = "." THEN LexNumber(s, i0)
    ELSE IF isIdentStart(At(s, i0)) THEN LexIdent(s, i0)
    ELSE LexPunct(s, i0)

\* Lexer::next, lines 30-65: the token, the cursor after it, the error thrown
\* (the whitespace of line 31 is skipped once, then the token is read)
LexerNext(s, i) == CHOOSE r \in {LexAt(s, i0) : i0 \in {SkipSpace(s, i)}} : TRUE

\* ------------------------------------------------- Shunting-yard to RPN
\* operator symbols are texts: <<"+">>, <<"u", "-">>, <<"(">>
UMinus == <<"u", "-">>
LPar == <<"(">>

\* lines 71-74
OP == [sym \in {<<"+">>, <<"-">>, <<"*">>, <<"/">>, <<"^">>, UMinus} |->
        CASE sym = <<"+">> -> [prec |-> 1, rightAssoc |-> FALSE, arity |-> 2]
          [] sym = <<"-">> -> [prec |-> 1, rightAssoc |-> FALSE, arity |-> 2]
          [] sym = <<"*">> -> [prec |-> 2, rightAssoc |-> FALSE, arity |-> 2]
          [] sym = <<"/">> -> [prec |-> 2, rightAssoc |-> FALSE, arity |-> 2]
          [] sym = <<"^">> -> [prec |-> 3, rightAssoc |-> TRUE, arity |-> 2]
          [] sym = UMinus -> [prec |-> 4, rightAssoc |-> TRUE, arity |-> 1]]

\* lines 76-79
Node(k, val, text) == [k |-> k, val |-> val, text |-> text]

\* line 81
isOpTok(t) == t \in {"Plus", "Minus", "Star", "Slash", "Caret"}

IsLParNode(n) == n.k = "KOp" /\ n.text = LPar

\* the parser between two tokens: output, operator stack, previous token kind
RPNInit == [output |-> <<>>, ops |-> <<>>, prev |-> "End", err |-> ""]

\* lines 90-92: pop to output down to an argument separator or '('
RECURSIVE PopToSep(_, _)
PopToSep(output, ops) ==
    IF ops # <<>> /\ Last(ops).k # "KArgSep" /\ ~IsLParNode(Last(ops))
    THEN PopToSep(Append(output, Last(ops)), Front(ops))
    ELSE [output |-> output, ops |-> ops]

\* lines 98-100: pop to output down to '('
RECURSIVE PopToLPar(_, _)
PopToLPar(output, ops) ==
    IF ops # <<>> /\ ~IsLParNode(Last(ops))
    THEN PopToLPar(Append(output, Last(ops)), Front(ops))
    ELSE [output |-> output, ops |-> ops]

\* every operator taken as left-associative
Yields_leftOnly(oi, top) == oi.prec <= top.prec

\* line 114: the operator on top of the stack goes out before oi is pushed
Yields(oi, top) == IF oi.rightAssoc THEN oi.prec < top.prec ELSE oi.prec <= top.prec

\* lines 111-116
RECURSIVE PopByPrec(_, _, _)
PopByPrec(output, ops, oi) ==
    IF ops # <<>> /\ Last(ops).k \in {"KOp", "KFunc"}
       /\ Last(ops).k = "KOp" /\ Last(ops).text \in DOMAIN OP
       /\ Yields(oi, OP[Last(ops).text])
    THEN PopByPrec(Append(output, Last(ops)), Front(ops), oi)
    ELSE [output |-> output, ops |-> ops]

\* the test of line 108 without the assignment sign
UnaryPos_noAssign(prev) == prev = "End" \/ prev = "LParen" \/ prev = "Comma" \/ isOpTok(prev)

\* line 108: a '-' here is the unary minus
UnaryPos(prev) == prev = "End" \/ prev = "LParen" \/ prev = "Comma" \/ isOpTok(prev) \/ prev = "Assign"

\* line 107
SymOf(t) == CASE t = "Plus" -> <<"+">> [] t = "Minus" -> <<"-">> [] t = "Star" -> <<"*">>
              [] t = "Slash" -> <<"/">> [] OTHER -> <<"^">>

\* lines 107-109
OpSym(prev, t) == IF UnaryPos(prev) /\ SymOf(t) = <<"-">> THEN UMinus ELSE SymOf(t)

\* lines 87-122: the body of the token loop of toRPN
RPNToken(ps, tok) ==
    LET fail(e) == [ps EXCEPT !.err = e]
        go(output, ops) == [output |-> output, ops |-> ops, prev |-> tok.t, err |-> ""]
    IN  CASE tok.t = "Number" -> go(Append(ps.output, Node("KNum", tok.value, <<>>)), ps.ops)
          [] tok.t = "Ident" -> go(Append(ps.output, Node("KVar", Num(0), tok.text)), ps.ops)
          [] tok.t = "Comma" ->
                LET r == PopToSep(ps.output, ps.ops)
                IN  IF r.ops = <<>> THEN fail("MisplacedSeparator")
                    ELSE go(Append(r.output, Node("KArgSep", Num(0), <<>>)), r.ops)
          [] tok.t = "LParen" -> go(ps.output, Append(ps.ops, Node("KOp", Num(0), LPar)))
          [] tok.t = "RParen" ->
                LET r == PopToLPar(ps.output, ps.ops)
                    o1 == Front(r.ops)
                IN  IF r.ops = <<>> THEN fail("UnbalancedParens")
                    ELSE IF o1 # <<>> /\ Last(o1).k = "KFunc"
                         THEN go(Append(r.output, Last(o1)), Front(o1))
                         ELSE go(r.output, o1)
          [] tok.t = "Assign" -> go(ps.output, Append(ps.ops, Node("KAssign", Num(0), <<>>)))
          [] isOpTok(tok.t) ->
                LET sym == OpSym(ps.prev, tok.t)
                    r == PopByPrec(ps.output, ps.ops, OP[sym])
                IN  go(r.output, Append(r.ops, Node("KOp", Num(0), sym)))
          [] OTHER -> fail("UnexpectedToken")

\* the final loop without its test for a remaining '('
RPNDrainStep_noTest(ps) == [ps EXCEPT !.output = Append(@, Last(ps.ops)), !.ops = Front(@)]

\* lines 125-128: one iteration of the final loop
RPNDrainStep(ps) ==
    IF IsLParNode(Last(ps.ops)) THEN [ps EXCEPT !.err = "UnbalancedParens"]
    ELSE [ps EXCEPT !.output = Append(@, Last(ps.ops)), !.ops = Front(@)]

RECURSIVE RPNDrain(_)
RPNDrain(ps) ==
    IF ps.err # "" \/ ps.ops = <<>> THEN ps ELSE RPNDrain(RPNDrainStep(ps))

\* lines 86-123
RECURSIVE RPNLoop(_, _, _)
RPNLoop(s, i, ps) ==
    LET lx == LexerNext(s, i)
    IN  IF lx.err # "" THEN [ps EXCEPT !.err = lx.err]
        ELSE IF lx.tok.t = "End" THEN ps
        ELSE LET ps1 == RPNToken(ps, lx.tok)
             IN  IF ps1.err # "" THEN ps1 ELSE RPNLoop(s, lx.i, ps1)

\* toRPN, lines 83-130: [output, err]
toRPN(s) == RPNDrain(RPNLoop(s, 0, RPNInit))

\* ------------------------------------------------------------- evaluator
N3(a, b, c) == <<a, b, c>>
N4(a, b, c, d) == <<a, b, c, d>>
N5(a, b, c, d, e) == <<a, b, c, d, e>>
PiName == <<"p", "i">>
EName == <<"e">>
PowName == <<"p", "o", "w">>
SqrtName == <<"s", "q", "r", "t">>
AbsName == <<"a", "b", "s">>

\* lines 142-148
UFNames == {N3("s", "i", "n"), N3("c", "o", "s"), N3("t", "a", "n"),
            N4("a", "s", "i", "n"), N4("a", "c", "o", "s"), N4("a", "t", "a", "n"),
            SqrtName, N4("c", "b", "r", "t"), N3("e", "x", "p"), AbsName,
            N5("f", "l", "o", "o", "r"), N4("c", "e", "i", "l"), N5("r", "o", "u", "n", "d"),
            <<"l", "n">>, N3("l", "o", "g"), N5("l", "o", "g", "1", "0")}
UF(name, a) ==
    CASE name = SqrtName -> Sqrt(a)
      [] name = AbsName -> Fabs(a)
      [] name = N5("f", "l", "o", "o", "r") -> Floor(a)
      [] name = N4("c", "e", "i", "l") -> Ceil(a)
      [] name = <<"l", "n">> -> Sym(N3("l", "o", "g"), <<a>>)
      [] OTHER -> Sym(name, <<a>>)

\* lines 150-152
BFNames == {PowName}
BF(name, a, b) == Pow(a, b)

\* line 136
EnvInit == (PiName :> Sym(PiName, <<>>)) @@ (EName :> Sym(EName, <<>>))

\* applyOp, lines 154-165 (st has the operands the operator needs)
applyOp(op, st) ==
    LET b == Last(st)
        a == st[Len(st) - 1]
    IN  CASE op = UMinus -> [err |-> "", val |-> Neg(b)]
          [] op = <<"+">> -> [err |-> "", val |-> Add(a, b)]
          [] op = <<"-">> -> [err |-> "", val |-> Sub(a, b)]
          [] op = <<"*">> -> [err |-> "", val |-> Mul(a, b)]
          [] op = <<"/">> -> IF IsZero(b) THEN [err |-> "DivisionByZero", val |-> Num(0)]
                             ELSE [err |-> "", val |-> Div(a, b)]
          [] op = <<"^">> -> [err |-> "", val |-> Pow(a, b)]
          [] OTHER -> [err |-> "UnknownOperator", val |-> Num(0)]

\* st without its last k values
DropLast(st, k) == SubSeq(st, 1, Len(st) - k)

\* lines 179-204 and 214-239: one node against the value stack st
EvalNode(st, n, env) ==
    LET ok(s) == [st |-> s, err |-> ""]
        fail(e) == [st |-> st, err |-> e]
    IN  CASE n.k = "KNum" -> ok(Append(st, n.val))
          [] n.k = "KVar" ->
                IF n.text \in UFNames
                THEN IF st = <<>> THEN fail("MissingArgument")
                     ELSE ok(Append(DropLast(st, 1), UF(n.text, Last(st))))
                ELSE IF n.text \in BFNames
                THEN IF Len(st) < 2 THEN fail("MissingArgument")
                     ELSE ok(Append(DropLast(st, 2), BF(n.text, st[Len(st) - 1], Last(st))))
                ELSE IF n.text \notin DOMAIN env THEN fail("UndefinedVariable")
                     ELSE ok(Append(st, env[n.text]))
          [] n.k = "KOp" ->
                LET need == IF n.text = UMinus THEN 1 ELSE 2
                IN  IF Len(st) < need THEN fail("StackUnderflow")
                    ELSE LET r == applyOp(n.text, st)
                         IN  IF r.err # "" THEN fail(r.err)
                             ELSE ok(Append(DropLast(st, need), r.val))
          [] OTHER -> ok(st)

\* the node loops, lines 177-205 and 213-240
RECURSIVE EvalNodes(_, _, _, _)
EvalNodes(nodes, k, st, env) ==
    IF k > Len(nodes) THEN [st |-> st, err |-> ""]
    ELSE LET r == EvalNode(st, nodes[k], env)
         IN  IF r.err # "" THEN r ELSE EvalNodes(nodes, k + 1, r.st, env)

\* line 169
hasAssign(nodes) == \E p \in 1..Len(nodes) : nodes[p].k = "KAssign"

\* line 172
BadAssignShape(nodes) == Len(nodes) < 3 \/ nodes[1].k # "KVar" \/ nodes[2].k # "KAssign"

Outcome(ok, val, err, env) == [ok |-> ok, val |-> val, err |-> err, vars |-> env]

\* lines 206-209 and 241-242: the end of evalRPN on the final value stack
EvalFinish(nodes, st, env) ==
    IF hasAssign(nodes)
    THEN IF Len(st) # 1 THEN Outcome(FALSE, Num(0), "InvalidAssignExpr", env)
         ELSE Outcome(TRUE, Last(st), "", (nodes[1].text :> Last(st)) @@ env)
    ELSE IF Len(st) # 1 THEN Outcome(FALSE, Num(0), "InvalidExpression", env)
         ELSE Outcome(TRUE, Last(st), "", env)

\* the index of the first node the loop of evalRPN visits (line 175, line 213)
FirstNode(nodes) == IF hasAssign(nodes) THEN 3 ELSE 1

\* evalRPN creating the variable before its right-hand side is evaluated
evalRPN_early(nodes, env) ==
    IF hasAssign(nodes) /\ BadAssignShape(nodes)
    THEN Outcome(FALSE, Num(0), "InvalidAssignment", env)
    ELSE LET r == EvalNodes(nodes, FirstNode(nodes), <<>>, env)
             env0 == IF hasAssign(nodes) THEN (nodes[1].text :> Num(0)) @@ env ELSE env
         IN  IF r.err # "" THEN Outcome(FALSE, Num(0), r.err, env0)
             ELSE EvalFinish(nodes, r.st, env)

\* evalRPN, lines 168-243: the result or the error, and the Env afterwards
evalRPN(nodes, env) ==
    IF hasAssign(nodes) /\ BadAssignShape(nodes)
    THEN Outcome(FALSE, Num(0), "InvalidAssignment", env)
    ELSE LET r == EvalNodes(nodes, FirstNode(nodes), <<>>, env)
         IN  IF r.err # "" THEN Outcome(FALSE, Num(0), r.err, env)
             ELSE EvalFinish(nodes, r.st, env)

\* --------------------------------------------------------- Call normalizer
\* line 250
RECURSIVE ScanName(_, _)
ScanName(in, j) == IF j < Len(in) /\ (isalnum(At(in, j)) \/ At(in, j) = "_") THEN ScanName(in, j + 1) ELSE j

\* the scan of a call that keeps no inner '('
RECURSIVE ScanCall_noInner(_, _, _, _, _)
ScanCall_noInner(in, p, depth, args, cur) ==
    IF p >= Len(in) THEN [depth |-> depth, args |-> args, m |-> p]
    ELSE LET c == At(in, p) IN
         IF c = "("
         THEN ScanCall_noInner(in, p + 1, depth + 1, args, cur)
         ELSE IF c = ")"
         THEN IF depth - 1 = 0 THEN [depth |-> 0, args |-> Append(args, cur), m |-> p]
              ELSE ScanCall_noInner(in, p + 1, depth - 1, args, Append(cur, c))
         ELSE IF c = "," /\ depth = 1
         THEN ScanCall_noInner(in, p + 1, depth, Append(args, cur), <<>>)
         ELSE ScanCall_noInner(in, p + 1, depth, args, Append(cur, c))

\* lines 255-263: from the '(' of the call at p to its matching ')' at m
RECURSIVE ScanCall(_, _, _, _, _)
ScanCall(in, p, depth, args, cur) ==
    IF p >= Len(in) THEN [depth |-> depth, args |-> args, m |-> p]
    ELSE LET c == At(in, p) IN
         IF c = "("
         THEN ScanCall(in, p + 1, depth + 1, args, IF depth + 1 > 1 THEN Append(cur, c) ELSE cur)
         ELSE IF c = ")"
         THEN IF depth - 1 = 0 THEN [depth |-> 0, args |-> Append(args, cur), m |-> p]
              ELSE ScanCall(in, p + 1, depth - 1, args, Append(cur, c))
         ELSE IF c = "," /\ depth = 1
         THEN ScanCall(in, p + 1, depth, Append(args, cur), <<>>)
         ELSE ScanCall(in, p + 1, depth, args, Append(cur, c))

\* line 266: the arguments joined by one space
RECURSIVE JoinArgs(_)
JoinArgs(args) ==
    IF args = <<>> THEN <<>>
    ELSE IF Len(args) = 1 THEN args[1]
    ELSE args[1] \o <<" ">> \o JoinArgs(Tail(args))

\* lines 265-267
Postfixed(args, name) == <<"(">> \o JoinArgs(args) \o <<")", " ">> \o name

\* lines 249-272: one iteration of the outer loop of preprocessFuncCalls
PreIter(in, i, out) ==
    LET j == ScanName(in, i + 1)
        name == SubStr(in, i, j - i)
        k == SkipSpace(in, j)
        sc == ScanCall(in, k, 0, <<>>, <<>>)
    IN  IF (isalpha(At(in, i)) \/ At(in, i) = "_") /\ k < Len(in) /\ At(in, k) = "("
        THEN IF sc.depth # 0 THEN [i |-> i, out |-> out, err |-> "UnbalancedParensCall"]
             ELSE [i |-> sc.m + 1, out |-> out \o Postfixed(sc.args, name), err |-> ""]
        ELSE [i |-> i + 1, out |-> Append(out, At(in, i)), err |-> ""]

RECURSIVE PreLoop(_, _, _)
PreLoop(in, i, out) ==
    IF i >= Len(in) THEN [i |-> i, out |-> out, err |-> ""]
    ELSE LET r == PreIter(in, i, out)
         IN  IF r.err # "" THEN r ELSE PreLoop(in, r.i, r.out)

\* preprocessFuncCalls, lines 246-275: [out, err]
preprocessFuncCalls(in) == PreLoop(in, 0, <<>>)

\* ------------------------------------------------------------ the pipeline
\* main, lines 309-316: the try block on one line; the text after
\* normalization, the parser at its end, and the outcome with the Env after it
Run(l, env) ==
    LET p == preprocessFuncCalls(l)
        r == toRPN(p.out)
    IN  IF p.err # ""
        THEN [pre |-> p, rpn |-> RPNInit, o |-> Outcome(FALSE, Num(0), p.err, env)]
        ELSE IF r.err # ""
        THEN [pre |-> p, rpn |-> r, o |-> Outcome(FALSE, Num(0), r.err, env)]
        ELSE [pre |-> p, rpn |-> r, o |-> evalRPN(r.output, env)]

Evaluate(l, env) == Run(l, env).o

Res(o) == [ok |-> o.ok, val |-> o.val, err |-> o.err]
NoResult == [ok |-> FALSE, val |-> Num(0), err |-> "none"]
PreInit == [i |-> 0, out |-> <<>>, err |-> ""]
LexInit == [i |-> 0, calls |-> 0, start |-> 0, tok |-> EndTok]
EvInit == [k |-> 0, st |-> <<>>]
ClearText == <<":", "c", "l", "e", "a", "r">>

\* --------------------------------------------------- the read loop of main
InitRepl ==
    /\ line = <<>>
    /\ vars = EnvInit
    /\ result = NoResult
    /\ pc = "read"
    /\ pre = PreInit
    /\ lex = LexInit
    /\ rpn = RPNInit
    /\ ev = EvInit

\* main, lines 309-316, on the line l
RunLine(l) ==
    \E run \in {Run(l, vars)} :
        /\ line' = l
        /\ pre' = run.pre
        /\ rpn' = run.rpn
        /\ result' = Res(run.o)
        /\ vars' = run.o.vars
        /\ UNCHANGED <<lex, ev>>

\* main, lines 285-287 and 309-316: one line read and sent through the pipeline
EvalLine(raw) ==
    /\ pc = "read"
    /\ trim(raw) # <<>>
    /\ RunLine(trim(raw))
    /\ UNCHANGED pc

\* main, lines 300-303: the command :clear
ClearVars ==
    /\ pc = "read"
    /\ line' = ClearText
    /\ vars' = EnvInit
    /\ UNCHANGED <<result, pc, pre, lex, rpn, ev>>

\* ------------------------------------------- the pipeline on one given line
InitOnce(lines) ==
    /\ line \in {trim(l) : l \in lines} \ {<<>>}
    /\ vars = EnvInit
    /\ result = NoResult
    /\ pc = "ready"
    /\ pre = PreInit
    /\ lex = LexInit
    /\ rpn = RPNInit
    /\ ev = EvInit

\* main, lines 309-316, on the line already read
EvalOnce ==
    /\ pc = "ready"
    /\ RunLine(line)
    /\ pc' = "done"

\* ----------------------------------------- the pipeline, one step at a time
InitSteps ==
    /\ line = <<>>
    /\ vars = EnvInit
    /\ result = NoResult
    /\ pc = "start"
    /\ pre = PreInit
    /\ lex = LexInit
    /\ rpn = RPNInit
    /\ ev = EvInit

\* main reads a line, trims it and skips it when empty (lines 284-287)
ReadLine(lines) ==
    /\ pc = "start"
    /\ \E raw \in lines : trim(raw) # <<>> /\ line' = trim(raw)
    /\ pc' = "pre"
    /\ UNCHANGED <<vars, result, pre, lex, rpn, ev>>

Fail(e) ==
    /\ result' = [ok |-> FALSE, val |-> Num(0), err |-> e]
    /\ pc' = "done"

\* one iteration of the loop of preprocessFuncCalls (line 248)
PreIterate ==
    /\ pc = "pre"
    /\ pre.i < Len(line)
    /\ \E r \in {PreIter(line, pre.i, pre.out)} :
           /\ pre' = r
           /\ IF r.err # "" THEN Fail(r.err) ELSE UNCHANGED <<result, pc>>
    /\ UNCHANGED <<line, vars, lex, rpn, ev>>

\* preprocessFuncCalls returns (line 274), toRPN builds its Lexer (line 84)
PreReturn ==
    /\ pc = "pre"
    /\ pre.i >= Len(line)
    /\ pc' = "lex"
    /\ UNCHANGED <<line, vars, result, pre, lex, rpn, ev>>

\* one call of Lexer::next and the body of the token loop (lines 86-123)
LexToken ==
    /\ pc = "lex"
    /\ \E lx \in {LexerNext(pre.out, lex.i)} :
       \E ps \in {IF lx.err = "" /\ lx.tok.t # "End" THEN RPNToken(rpn, lx.tok) ELSE rpn} :
           /\ lex' = [i |-> lx.i, calls |-> lex.calls + 1, start |-> lx.start, tok |-> lx.tok]
           /\ IF lx.err # "" THEN Fail(lx.err) /\ rpn' = [rpn EXCEPT !.err = lx.err]
              ELSE IF lx.tok.t = "End" THEN pc' = "drain" /\ UNCHANGED <<result, rpn>>
              ELSE /\ rpn' = ps
                   /\ IF ps.err # "" THEN Fail(ps.err) ELSE UNCHANGED <<result, pc>>
    /\ UNCHANGED <<line, vars, pre, ev>>

\* one iteration of the final loop of toRPN (lines 125-128)
DrainStep ==
    /\ pc = "drain"
    /\ rpn.ops # <<>>
    /\ \E ps \in {RPNDrainStep(rpn)} :
           /\ rpn' = ps
           /\ IF ps.err # "" THEN Fail(ps.err) ELSE UNCHANGED <<result, pc>>
    /\ UNCHANGED <<line, vars, pre, lex, ev>>

\* toRPN returns (line 129), evalRPN starts (lines 169-176, 212)
EvalEnter ==
    /\ pc = "drain"
    /\ rpn.ops = <<>>
    /\ IF hasAssign(rpn.output) /\ BadAssignShape(rpn.output)
       THEN Fail("InvalidAssignment") /\ UNCHANGED ev
       ELSE /\ pc' = "eval"
            /\ ev' = [k |-> FirstNode(rpn.output), st |-> <<>>]
            /\ UNCHANGED result
    /\ UNCHANGED <<line, vars, pre, lex, rpn>>

\* one node of the loop of evalRPN (lines 177-205, 213-240)
EvalStep ==
    /\ pc = "eval"
    /\ ev.k <= Len(rpn.output)
    /\ \E r \in {EvalNode(ev.st, rpn.output[ev.k], vars)} :
           IF r.err # "" THEN Fail(r.err) /\ UNCHANGED ev
           ELSE ev' = [k |-> ev.k + 1, st |-> r.st] /\ UNCHANGED <<result, pc>>
    /\ UNCHANGED <<line, vars, pre, lex, rpn>>

\* evalRPN returns or throws after the loop (lines 206-209, 241-242)
EvalReturn ==
    /\ pc = "eval"
    /\ ev.k > Len(rpn.output)
    /\ \E o \in {EvalFinish(rpn.output, ev.st, vars)} :
           /\ result' = Res(o)
           /\ vars' = o.vars
    /\ pc' = "done"
    /\ UNCHANGED <<line, pre, lex, rpn, ev>>

NextSteps == PreIterate \/ PreReturn \/ LexToken \/ DrainStep \/ EvalEnter \/ EvalStep \/ EvalReturn

\* ------------------------------------------------------------ the inputs
XName == <<"x">>

\* the read loop: an optional assignment prefix and a short text
AlphaT == {"1", "0", "/"}
Prefixes == {<<>>, <<"x">>, <<"x", "=">>, <<"(", "x", "=", ")">>}
Lines == {p \o t : p \in Prefixes, t \in Texts(AlphaT, MaxTail)}

\* the variable-free arithmetic expressions: numbers, unary minus, the five
\* binary operators and parentheses, by length
DigitsA == {"2", "3"}
OpsA == {"+", "-", "*", "/", "^"}
ExprsOfLen(k, shorter) ==
    {e \in [1..k -> DigitsA]
           \cup (IF k >= 2 THEN {<<"-">> \o a : a \in shorter[k - 1]} ELSE {})
           \cup (IF k >= 3 THEN {<<"(">> \o a \o <<")">> : a \in shorter[k - 2]} ELSE {})
           \cup UNION {{a \o <<op>> \o b : a \in shorter[i], b \in shorter[k - 1 - i], op \in OpsA} :
                       i \in 1..(k - 2)} : TRUE}
RECURSIVE ExprsUpTo(_, _)
ExprsUpTo(k, shorter) ==
    IF k > MaxLenA THEN {e \in UNION {shorter[i] : i \in 1..MaxLenA} : TRUE}
    ELSE ExprsUpTo(k + 1, Append(shorter, ExprsOfLen(k, shorter)))
LinesA == ExprsUpTo(1, <<>>)

\* lines of parentheses, with a call name, a comma and a character the
\* tokenizer rejects
AlphaP == {"(", ")", "1", "f", ",", "#", " "}
ParenExamples == {<<"1", "+", "2", ")">>, <<"(", "1", "+", "2">>}
LinesP == Texts(AlphaP, MaxLenP) \cup ParenExamples

\* calls of one binary and two unary functions on argument texts
AlphaC == {"2", "3", "-"}
ArgsC == Texts(AlphaC, MaxArg) \ {<<>>}
Call1(f, a) == f \o <<"(">> \o a \o <<")">>
Call2(f, a, b) == f \o <<"(">> \o a \o <<",">> \o b \o <<")">>
LinesC == {Call2(PowName, a, b) : a \in ArgsC, b \in ArgsC}
          \cup {Call1(g, a) : g \in {SqrtName, AbsName}, a \in ArgsC}

\* calls with a call inside the last argument
DigitsN == {"2", "4", "9"}
ArgsN == Texts(DigitsN, MaxArgN) \ {<<>>}
Blank == {<<>>, <<" ">>}
LinesN == {Call2(PowName, a, sp \o Call1(g, b)) :
              a \in ArgsN, sp \in Blank, g \in {SqrtName, AbsName}, b \in ArgsN}
          \cup {Call1(f, sp \o Call1(g, b)) :
              f \in {SqrtName, AbsName}, sp \in Blank, g \in {SqrtName, AbsName}, b \in ArgsN}

\* lines with an assignment sign: a prefix and a short text
AlphaAsg == {"1", "=", "x", "+"}
PrefixesAsg == {<<"x", "=">>, <<"(", "x", "=", ")">>, <<"1", "=">>}
LinesAsg == {p \o t : p \in PrefixesAsg, t \in Texts(AlphaAsg, MaxTailA)}

\* literals: digits, the point, exponent markers and signs
AlphaL == {"1", ".", "e", "E", "-", "+", " "}
LinesL == Texts(AlphaL, MaxLenL)

\* every kind of token before a minus sign
AlphaS == {"2", "-", "^", "(", ")", ",", "=", "f", " "}
MinusExamples == {<<"-", "3", "+", "2">>, <<"3", "-", "2">>, <<"2", "^", "-", "1">>}
LinesS == Texts(AlphaS, MaxLenS) \cup MinusExamples
LinesT == Texts(AlphaS, MaxLenT)

\* ------------------------------------------------------ the specifications
Next == (\E l \in Lines : EvalLine(l)) \/ ClearVars
Spec == InitRepl /\ [][Next]_allvars

SpecArith == InitOnce(LinesA) /\ [][EvalOnce]_allvars
SpecParen == InitOnce(LinesP) /\ [][EvalOnce]_allvars
SpecCall == InitOnce(LinesC) /\ [][EvalOnce]_allvars
SpecNested == InitOnce(LinesN) /\ [][EvalOnce]_allvars
SpecAssign == InitOnce(LinesAsg) /\ [][EvalOnce]_allvars
NextLex == ReadLine(LinesL) \/ NextSteps
NextMinus == ReadLine(LinesS) \/ NextSteps
SpecLex == InitSteps /\ [][NextLex]_allvars
NextTerm == ReadLine(LinesT) \/ NextSteps
SpecSteps == InitSteps /\ [][NextMinus]_allvars
\* a line that was read is worked on until it is done; reading may wait forever
SpecTerm == InitSteps /\ [][NextTerm]_allvars /\ WF_allvars(NextSteps)

\* ------------------------------------------------------------------ claims
\* a step of the read loop that sent a line through the pipeline
Evaluated == line' # ClearText

\* C1 (as claimed): the line `x = E`, E a valid call-free expression, succeeds,
\* stores the value of E under x and returns it, and the line `x` evaluated
\* next returns that value.
C1_AssignRoundTrip ==
    [][\A E \in Texts(AlphaT, MaxTail) :
          (Evaluated /\ line' = <<"x", "=">> \o E /\ Evaluate(E, vars).ok)
          => /\ result'.ok
             /\ result'.val = Evaluate(E, vars).val
             /\ XName \in DOMAIN vars' /\ vars'[XName] = result'.val
             /\ Evaluate(XName, vars').ok
             /\ Evaluate(XName, vars').val = Evaluate(E, vars).val]_allvars

\* C4: a line whose evaluation fails leaves the variables of the Env as they
\* were; the variables change only on a successful assignment line, by the
\* one write of the value that is returned.
C4_FailedLineKeepsEnv ==
    [][Evaluated =>
          /\ ~result'.ok => vars' = vars
          /\ vars' # vars =>
                /\ result'.ok
                /\ hasAssign(rpn'.output)
                /\ vars' = (rpn'.output[1].text :> result'.val) @@ vars]_allvars

\* a line failed inside the right-hand side of an assignment, after an earlier
\* assignment had stored x
C4_Witness ==
    /\ XName \in DOMAIN vars
    /\ ~result.ok /\ result.err = "StackUnderflow"
    /\ hasAssign(rpn.output) /\ ~BadAssignShape(rpn.output)

\* ------------------------------------------- reference evaluator (C2)
\* the tokens of a text; a character the tokenizer rejects is the token "Bad"
RECURSIVE TokensOf(_, _)
TokensOf(s, i) ==
    LET lx == LexerNext(s, i)
    IN  IF lx.err # "" THEN <<Token("Bad", Num(0), <<>>)>>
        ELSE IF lx.tok.t = "End" THEN <<>>
        ELSE <<lx.tok>> \o TokensOf(s, lx.i)

KindAt(toks, pos) == IF pos <= Len(toks) THEN toks[pos].t ELSE "End"
Parsed(val, pos) == [err |-> "", val |-> val, pos |-> pos]
NoParse(e) == [err |-> e, val |-> Num(0), pos |-> 0]
Bin(t, a, b) ==
    CASE t = "Plus" -> Parsed(Add(a.val, b.val), b.pos)
      [] t = "Minus" -> Parsed(Sub(a.val, b.val), b.pos)
      [] t = "Star" -> Parsed(Mul(a.val, b.val), b.pos)
      [] t = "Slash" -> IF IsZero(b.val) THEN NoParse("DivisionByZero")
                        ELSE Parsed(Div(a.val, b.val), b.pos)
      [] t = "Caret" -> Parsed(Pow(a.val, b.val), b.pos)

\* A recursive-descent evaluator over the grammar
\*   sum  ::= prod (('+' | '-') prod)*        left-associative, lowest
\*   prod ::= fact (('*' | '/') fact)*        left-associative
\*   atom ::= number | '(' sum ')'
\* with, for order = "power-first" (the order C2 names):
\*   fact ::= '-' fact | atom ('^' fact)?     '^' binds tighter than unary minus
\* and for order = "minus-first":
\*   fact ::= neg ('^' fact)?   neg ::= '-' neg | atom
\*                                            unary minus binds tighter than '^'
RECURSIVE RefSum(_, _, _), RefSumRest(_, _, _), RefProd(_, _, _), RefProdRest(_, _, _)
RECURSIVE RefFact(_, _, _), RefNeg(_, _, _), RefAtom(_, _, _)
RefAtom(order, toks, pos) ==
    IF KindAt(toks, pos) = "Number" THEN Parsed(toks[pos].value, pos + 1)
    ELSE IF KindAt(toks, pos) = "LParen"
    THEN LET e == RefSum(order, toks, pos + 1)
         IN  IF e.err # "" THEN e
             ELSE IF KindAt(toks, e.pos) = "RParen" THEN Parsed(e.val, e.pos + 1)
             ELSE NoParse("syntax")
    ELSE NoParse("syntax")
RefNeg(order, toks, pos) ==
    IF KindAt(toks, pos) = "Minus"
    THEN LET e == RefNeg(order, toks, pos + 1)
         IN  IF e.err # "" THEN e ELSE Parsed(Neg(e.val), e.pos)
    ELSE RefAtom(order, toks, pos)
RefFact(order, toks, pos) ==
    IF order = "power-first" /\ KindAt(toks, pos) = "Minus"
    THEN LET e == RefFact(order, toks, pos + 1)
         IN  IF e.err # "" THEN e ELSE Parsed(Neg(e.val), e.pos)
    ELSE LET a == IF order = "power-first" THEN RefAtom(order, toks, pos)
                  ELSE RefNeg(order, toks, pos)
         IN  IF a.err = "" /\ KindAt(toks, a.pos) = "Caret"
             THEN LET b == RefFact(order, toks, a.pos + 1)
                  IN  IF b.err # "" THEN b ELSE Bin("Caret", a, b)
             ELSE a
RefProdRest(order, toks, a) ==
    IF a.err = "" /\ KindAt(toks, a.pos) \in {"Star", "Slash"}
    THEN LET b == RefFact(order, toks, a.pos + 1)
         IN  IF b.err # "" THEN b
             ELSE RefProdRest(order, toks, Bin(KindAt(toks, a.pos), a, b))
    ELSE a
RefProd(order, toks, pos) == RefProdRest(order, toks, RefFact(order, toks, pos))
RefSumRest(order, toks, a) ==
    IF a.err = "" /\ KindAt(toks, a.pos) \in {"Plus", "Minus"}
    THEN LET b == RefProd(order, toks, a.pos + 1)
         IN  IF b.err # "" THEN b
             ELSE RefSumRest(order, toks, Bin(KindAt(toks, a.pos), a, b))
    ELSE a
RefSum(order, toks, pos) == RefSumRest(order, toks, RefProd(order, toks, pos))

\* the value of a whole text under the grammar, or the reason it has none
RefValue(order, s) ==
    LET toks == TokensOf(s, 0)
        e == RefSum(order, toks, 1)
    IN  IF e.err # "" THEN e
        ELSE IF e.pos # Len(toks) + 1 THEN NoParse("syntax")
        ELSE e

Neg2Pow2 == <<"-", "2", "^", "2">>

\* C2 (as claimed): on a valid variable-free expression toRPN then evalRPN give
\* the value of the reference evaluator in which '^' binds tighter than unary
\* minus, so that unary minus applied to a power negates the power.
C2_PowerBeforeMinus ==
    (pc = "done" /\ RefValue("power-first", line).err = "")
    => (result.ok /\ result.val = RefValue("power-first", line).val)

\* C2 (amended): on a valid variable-free expression toRPN then evalRPN give
\* the value of the reference evaluator in which unary minus binds tightest,
\* then '^' (right-associative), then '*' '/' (left), then '+' '-' (left); a
\* division by zero in the one is a division by zero in the other.
C2_MinusBeforePower ==
    pc = "done" =>
        LET ref == RefValue("minus-first", line)
        IN  /\ ref.err # "syntax"
            /\ ref.err = "" => (result.ok /\ result.val = ref.val)
            /\ ref.err = "DivisionByZero" => (~result.ok /\ result.err = "DivisionByZero")

\* -2^2 was evaluated to 4: the minus was applied to the base, not to the power
C2_Witness ==
    /\ pc = "done" /\ line = Neg2Pow2
    /\ result.ok /\ result.val = Num(4)
    /\ RefValue("power-first", line).val = Num(-4)

\* ------------------------------------------------------- text predicates
CountOf(s, c, k) == Cardinality({p \in 1..k : s[p] = c})
ParenDepth(s, k) == CountOf(s, "(", k) - CountOf(s, ")", k)
\* a ')' with no open '(' before it, or a '(' never closed
Unbalanced(s) == (\E k \in 1..Len(s) : ParenDepth(s, k) < 0) \/ ParenDepth(s, Len(s)) # 0
LexValid(s) == \A p \in 1..Len(s) :
    s[p] \in Digits \cup Letters \cup {"_", ".", " ", "\t", "(", ")", ",", "+", "-", "*", "/", "^", "="}
NoComma(s) == \A p \in 1..Len(s) : s[p] # ","
FirstOf(s, c) == CHOOSE p \in 1..Len(s) : s[p] = c /\ \A q \in 1..(p - 1) : s[q] # c
Has(s, c) == \E p \in 1..Len(s) : s[p] = c

\* C5: a line of valid characters without a comma whose parentheses are not
\* balanced fails with the unbalanced-parentheses error of
\* preprocessFuncCalls or of toRPN, so evalRPN never runs on it and no value
\* is returned.
C5_UnbalancedFails ==
    (pc = "done" /\ LexValid(line) /\ NoComma(line) /\ Unbalanced(line))
    => /\ ~result.ok
       /\ \/ pre.err = "UnbalancedParensCall" /\ result.err = "UnbalancedParensCall"
          \/ pre.err = "" /\ rpn.err = "UnbalancedParens" /\ result.err = "UnbalancedParens"

\* an unclosed call was refused by preprocessFuncCalls
C5_Witness ==
    /\ pc = "done" /\ LexValid(line) /\ NoComma(line) /\ Unbalanced(line)
    /\ pre.err = "UnbalancedParensCall" /\ ~result.ok

\* ------------------------------------------------------------------ calls
CallName(l) == SubSeq(l, 1, FirstOf(l, "(") - 1)
CallArg1(l) == SubSeq(l, FirstOf(l, "(") + 1, (IF Has(l, ",") THEN FirstOf(l, ",") ELSE Len(l)) - 1)
CallArg2(l) == SubSeq(l, FirstOf(l, ",") + 1, Len(l) - 1)
\* a valid call-free expression, and its value evaluated on its own
ValidArg(e) == RefValue("minus-first", e).err = "" /\ Evaluate(e, EnvInit).ok
ArgValue(e) == Evaluate(e, EnvInit).val

\* C3 (as claimed): a call f(e1, e2) of the binary function on two valid
\* call-free expressions returns f(v1, v2), and a call g(e1) of a unary
\* function returns g(v1), v1 and v2 being the values of e1 and e2 on their own.
C3_CallOnArgValues ==
    pc = "done" =>
        /\ (Has(line, ",") /\ ValidArg(CallArg1(line)) /\ ValidArg(CallArg2(line)))
           => (result.ok /\ result.val = BF(CallName(line), ArgValue(CallArg1(line)), ArgValue(CallArg2(line))))
        /\ (~Has(line, ",") /\ ValidArg(CallArg1(line)))
           => (result.ok /\ result.val = UF(CallName(line), ArgValue(CallArg1(line))))

\* ------------------------------------------------------------ nested calls
RECURSIVE CommasToSpaces(_)
CommasToSpaces(s) ==
    IF s = <<>> THEN <<>>
    ELSE <<IF s[1] = "," THEN " " ELSE s[1]>> \o CommasToSpaces(Tail(s))
\* the text between the outer parentheses of a call
CallInside(l) == SubSeq(l, FirstOf(l, "(") + 1, Len(l) - 1)
Pow2Sqrt9 == Call2(PowName, <<"2">>, <<" ">> \o Call1(SqrtName, <<"9">>))

\* C6: of a call whose argument text holds another call only the outer call
\* is rewritten: the output is '(' , the argument text with its characters
\* unchanged but for the separating comma (a space), ') ' and the outer name,
\* so the inner name stays in front of its parenthesis; and pow(2, sqrt(9))
\* fails or returns a value other than 8.
C6_OnlyOuterCallRewritten ==
    pc = "done" =>
        /\ pre.err = ""
        /\ pre.out = <<"(">> \o CommasToSpaces(CallInside(line)) \o <<")", " ">> \o CallName(line)
        /\ line = Pow2Sqrt9 => (~result.ok \/ result.val # Num(8))

\* pow(2, sqrt(9)) was evaluated, as pow(sqrt(2), 9)
C6_Witness ==
    /\ pc = "done" /\ line = Pow2Sqrt9
    /\ result.ok /\ result.val = Pow(Sqrt(Num(2)), Num(9))

\* -------------------------------------------------------------- assignment
\* [Variable, Assignment, rhs...] with no Assignment node in the rhs
ExactAssignShape(nodes) ==
    /\ Len(nodes) >= 2 /\ nodes[1].k = "KVar" /\ nodes[2].k = "KAssign"
    /\ \A p \in 3..Len(nodes) : nodes[p].k # "KAssign"

\* C8 (as claimed): a node sequence given to evalRPN that holds an Assignment
\* node anywhere but at index 1 after a Variable at index 0 fails with
\* InvalidAssignment and leaves the Env as it was.
C8_StrayAssignmentFails ==
    (pc = "done" /\ pre.err = "" /\ rpn.err = ""
       /\ hasAssign(rpn.output) /\ ~ExactAssignShape(rpn.output))
    => (~result.ok /\ result.err = "InvalidAssignment" /\ vars = EnvInit)

\* ---------------------------------------------------------------- literals
TokSpan == SubStr(pre.out, lex.start, lex.i - lex.start)
IsMantissa(m) ==
    /\ \E p \in 1..Len(m) : isdigit(m[p])
    /\ \A p \in 1..Len(m) : isdigit(m[p]) \/ m[p] = "."
    /\ Cardinality({p \in 1..Len(m) : m[p] = "."}) <= 1
IsExponent(x) ==
    \/ x = <<>>
    \/ /\ Len(x) >= 2 /\ x[1] \in {"e", "E"}
       /\ LET ds == IF x[2] \in {"+", "-"} THEN SubSeq(x, 3, Len(x)) ELSE SubSeq(x, 2, Len(x))
          IN  ds # <<>> /\ \A p \in 1..Len(ds) : isdigit(ds[p])
\* digits with at most one point, then nothing or e/E, an optional sign, digits
IsLiteral(t) ==
    LET cut == IF \E p \in 1..Len(t) : t[p] \in {"e", "E"}
               THEN CHOOSE p \in 1..Len(t) : t[p] \in {"e", "E"} /\ \A q \in 1..(p - 1) : t[q] \notin {"e", "E"}
               ELSE Len(t) + 1
    IN  IsMantissa(SubSeq(t, 1, cut - 1)) /\ IsExponent(SubSeq(t, cut, Len(t)))

\* C9 (as claimed): the span of every Number token returned by Lexer::next is
\* a literal: a mantissa with at least one digit and at most one point, and
\* an exponent part only with its digits; no Number token comes from a span
\* without a digit.
C9_NumberSpansAreLiterals ==
    (pc \in {"lex", "drain", "eval", "done"} /\ lex.tok.t = "Number") => IsLiteral(TokSpan)

\* ------------------------------------------------------------ minus signs
BeforeUnary == {"End", "LParen", "Comma", "Assign", "Plus", "Minus", "Star", "Slash", "Caret"}
\* this step took a token from the lexer and handed it to the parser
TokenStep == pc = "lex" /\ lex'.calls = lex.calls + 1 /\ rpn'.err = "" /\ lex'.tok.t # "End"

\* C7: toRPN pushes the unary operator u- for a '-' exactly when the token
\* before it is absent, '(', ',', '=' or one of + - * / ^, and the binary '-'
\* after a number, an identifier or ')'; so -3+2 is -1, 3-2 is 1 and 2^-1 is
\* 2 to the power of the negation of 1.
C7_UnaryMinusByLookback ==
    /\ [][(TokenStep /\ lex'.tok.t = "Minus") =>
             /\ rpn'.ops # <<>> /\ Last(rpn'.ops).k = "KOp"
             /\ Last(rpn'.ops).text = (IF rpn.prev \in BeforeUnary THEN UMinus ELSE <<"-">>)
             /\ rpn.prev \in BeforeUnary \cup {"Number", "Ident", "RParen"}]_allvars
    /\ [](pc = "done" =>
             /\ line = <<"-", "3", "+", "2">> => (result.ok /\ result.val = Num(-1))
             /\ line = <<"3", "-", "2">> => (result.ok /\ result.val = Num(1))
             /\ line = <<"2", "^", "-", "1">> => (result.ok /\ result.val = Pow(Num(2), Neg(Num(1)))))

\* a '-' right after '=' was pushed as the unary minus
C7_Witness ==
    /\ pc = "lex" /\ lex.tok.t = "Minus" /\ rpn.prev = "Minus"
    /\ Len(rpn.output) = 0 /\ Len(rpn.ops) = 2
    /\ rpn.ops[1].k = "KAssign" /\ rpn.ops[2].text = UMinus

\* ------------------------------------------------------------- termination
\* C10: every call of Lexer::next that returns a token moves the cursor
\* forward and never past the end, so toRPN calls it at most n + 1 times;
\* every iteration of the loop of preprocessFuncCalls moves its index
\* forward; evalRPN takes one step per node; and every line ends in a result
\* or an error.
C10_Terminates ==
    /\ [][/\ (pc = "lex" /\ lex'.calls = lex.calls + 1 /\ lex'.tok.t # "End")
             => (lex'.i > lex.i /\ lex'.i <= Len(pre.out))
          /\ lex'.i >= lex.i
          /\ (pc = "pre" /\ pre' # pre /\ pre'.err = "") => (pre'.i > pre.i /\ pre'.i <= Len(line))
          /\ (pc = "eval" /\ ev' # ev) => ev'.k = ev.k + 1]_allvars
    /\ [](/\ lex.calls <= Len(pre.out) + 1
          /\ Len(pre.out) <= 2 * Len(line)
          /\ Len(rpn.output) + Len(rpn.ops) <= lex.calls
          /\ ev.k <= Len(rpn.output) + 1)
    /\ (pc = "pre") ~> (pc = "done")

\* a line went through all three stages and returned a value
C10_Witness ==
    /\ pc = "done" /\ result.ok
    /\ Len(line) = MaxLenT /\ pre.i = Len(line)
    /\ lex.calls = Len(pre.out) + 1
    /\ ev.k = Len(rpn.output) + 1

====
